---- MODULE Spec2Model ----
(***************************************************************************)
(* Model of the consensus-integrity core of core-rs-albatross:             *)
(*   - the fork proof pool (fork-proof-pool/src/lib.rs),                   *)
(*   - the chain interface it consumes (state, get_slot_at,                *)
(*     slashed_set_for_epoch), as an environment,                          *)
(*   - the signed-message envelope exercised by                            *)
(*     blockchain-albatross/tests/signed.rs.                               *)
(***************************************************************************)
EXTENDS Integers, Sequences, FiniteSets, TLC

\* ------------------------------------------------------------------ bounds
\* Highest chain height / housekeeping block number explored.
MaxHeight == 4
\* Slot numbers are 0..MaxSlot (u16 in the code).
MaxSlot == 1
\* Largest max_size handed to get_fork_proofs_for_block.
MaxBytes == 5
\* Largest number of fork proofs embedded in one micro block.
MaxBlockProofs == 2

\* --------------------------------------------------------- policy, chain
\* policy::EPOCH_LENGTH, shortened so that three epochs fit into MaxHeight.
EPOCH_LENGTH == 2

\* Option::None of get_slot_at.
NoSlot == -1

Slots == 0 .. MaxSlot

\* Err(_) of slashed_set_for_epoch (a BitSet is a subset of Slots otherwise).
SlashedErr == {NoSlot}

\* Every answer slashed_set_for_epoch can give.
SlashedAnswers == (SUBSET Slots) \cup {SlashedErr}

\* policy::epoch_at: the epoch index containing block_number.
epoch_at(block_number) == block_number \div EPOCH_LENGTH

\* The fork proofs the network can deliver. hash is the Blake2b digest of the
\* serialized proof (distinct proofs, distinct digests); block_number and
\* view_number are header1's; signer is the validator key that signed both
\* headers; size is serialized_size().
ForkProofs ==
    { [hash |-> 1, block_number |-> 1, view_number |-> 0, signer |-> 0, size |-> 1],
      [hash |-> 2, block_number |-> 1, view_number |-> 0, signer |-> 0, size |-> 3],
      [hash |-> 3, block_number |-> 2, view_number |-> 0, signer |-> 1, size |-> 2] }

Hashes == { p.hash : p \in ForkProofs }

\* fork_proof.hash()
hash(fork_proof) == fork_proof.hash

ProofOf(h) == CHOOSE p \in ForkProofs : p.hash = h

\* The (block_number, view_number) pairs the chain is asked about.
Positions == { <<p.block_number, p.view_number>> : p \in ForkProofs }

\* The chain state the pool reads: the head's block number and the slot
\* (validator key and slot number) that produced each position, if known.
ChainStates ==
    [block_number : 0 .. MaxHeight, slots : [Positions -> Slots \cup {NoSlot}]]

\* ForkProof::is_valid_at: the proof's epoch is the given height's epoch or the
\* one immediately before it.
is_valid_at(fork_proof, block_number) ==
    LET given_epoch == epoch_at(block_number)
        proof_epoch == epoch_at(fork_proof.block_number)
    IN  proof_epoch = given_epoch \/ proof_epoch + 1 = given_epoch

\* Blockchain::get_slot_at: Some(slot_number) or None.
get_slot_at(chain, block_number, view_number) ==
    IF <<block_number, view_number>> \in DOMAIN chain.slots
    THEN chain.slots[<<block_number, view_number>>]
    ELSE NoSlot

\* slot.public_key(): the validator key owning the slot.
public_key(slot_number) == slot_number

\* ForkProof::verify: both justifications verify under the given key.
verify(fork_proof, key) == fork_proof.signer = key

\* ------------------------------------------------------------- pool state
VARIABLES
    fork_proofs,        \* HashMap<Blake2bHash, (ForkProof, u16)>
    fork_proof_slots,   \* HashSet<u16>
    blockchain,         \* the chain state behind Arc<Blockchain>
    last,               \* the last pool call: operation, argument, result
    applied,            \* the block of the apply_block just made, and the pool before it
    chain_slashed,      \* the chain's slashed set, as a concurrent insert reads it
    version,            \* how many times the chain state has been written
    ins,                \* the insert call in progress, step by step
    signed_message,     \* the SignedMessage handed to verify
    verified,           \* what verify answered
    validators,         \* the ValidatorSlots of the epoch
    builder,            \* the threshold proof builder of one aggregation round
    threshold_proof,    \* the ThresholdProof that build() returned
    proof_result,       \* what ThresholdProof::verify answered
    peer_address,       \* a PeerAddress as its owner made it
    relayed_address,    \* the same record as a peer passes it on
    wire,               \* the bytes serialize wrote
    decoded,            \* what deserialize made of the bytes
    signature_ok        \* what verify_signature answered

vars == <<fork_proofs, fork_proof_slots, blockchain, last, applied,
          chain_slashed, version, ins, signed_message, verified,
          validators, builder, threshold_proof, proof_result,
          peer_address, relayed_address, wire, decoded, signature_ok>>

\* The variables of the step-by-step insert and of the signed messages.
concvars == <<chain_slashed, version, ins>>
signvars == <<signed_message, verified>>

\* The variables of the threshold proofs and of the peer addresses.
proofvars == <<validators, builder, threshold_proof, proof_result>>
peervars == <<peer_address, relayed_address, wire, decoded, signature_ok>>

\* A pool value: the two collections of ForkProofPool.
MkPool(fp, fps) == [fork_proofs |-> fp, fork_proof_slots |-> fps]

Pool == MkPool(fork_proofs, fork_proof_slots)

\* The empty HashMap.
EmptyMap == [h \in {} |-> <<>>]

\* ForkProofPool::new
NewPool == MkPool(EmptyMap, {})

\* The entry is not stored.
MapInsert_Drop(map, key, value) == map

\* HashMap::insert
MapInsert(map, key, value) ==
    [k \in DOMAIN map \cup {key} |-> IF k = key THEN value ELSE map[k]]

\* HashMap::remove / HashMap::retain: the map restricted to keys.
MapRestrict(map, keys) == [k \in keys |-> map[k]]

\* The slot number stored with a retained proof.
SlotOf(pool, h) == pool.fork_proofs[h][2]

\* ------------------------------------------------------------------ insert
\* What one insert call leaves behind: the pool and the Result it returns.
InsertResult(pool, result) == [pool |-> pool, result |-> result]

\* The duplicate check dropped: every proof is taken for a new one.
AlreadyKnown_Never(pool, fork_proof) == FALSE

\* self.fork_proofs.contains_key(&hash)
AlreadyKnown(pool, fork_proof) == hash(fork_proof) \in DOMAIN pool.fork_proofs

\* Only the chain's slashed set is consulted, the pool's own slots are not.
SlotTaken_ChainOnly(pool, slashed_set, slot_number) == slot_number \in slashed_set

\* slashed_set.contains(slot_number) || self.fork_proof_slots.contains(&slot_number)
SlotTaken(pool, slashed_set, slot_number) ==
    slot_number \in slashed_set \/ slot_number \in pool.fork_proof_slots

\* The signature is verified as soon as the slot is known, before the slashed
\* set is looked at.
insert_VerifyFirst(pool, chain, slashed, fork_proof) ==
    LET h == hash(fork_proof)
        slot_number == get_slot_at(chain, fork_proof.block_number, fork_proof.view_number)
    IN  IF AlreadyKnown(pool, fork_proof)
        THEN InsertResult(pool, "Ok(false)")
        ELSE IF ~is_valid_at(fork_proof, chain.block_number)
        THEN InsertResult(pool, "InvalidEpochTarget")
        ELSE IF slot_number = NoSlot
        THEN InsertResult(pool, "UnexpectedBlock")
        ELSE IF ~verify(fork_proof, public_key(slot_number))
        THEN InsertResult(pool, "InvalidProof")
        ELSE IF slashed = SlashedErr
        THEN InsertResult(pool, "InvalidEpochTarget")
        ELSE IF SlotTaken(pool, slashed, slot_number)
        THEN InsertResult(pool, "SlotAlreadySlashed")
        ELSE InsertResult(
                MkPool(MapInsert(pool.fork_proofs, h, <<fork_proof, slot_number>>),
                       pool.fork_proof_slots \cup {slot_number}),
                "Ok(true)")

\* ForkProofPool::insert. slashed is the chain's answer to
\* slashed_set_for_epoch(epoch_at(header1.block_number)).
insert(pool, chain, slashed, fork_proof) ==
    LET h == hash(fork_proof)
        blockchain_height == chain.block_number
        block_number == fork_proof.block_number
        view_number == fork_proof.view_number
        slot_number == get_slot_at(chain, block_number, view_number)
    IN  IF AlreadyKnown(pool, fork_proof)
        THEN InsertResult(pool, "Ok(false)")
        ELSE IF ~is_valid_at(fork_proof, blockchain_height)
        THEN InsertResult(pool, "InvalidEpochTarget")
        ELSE IF slot_number = NoSlot
        THEN InsertResult(pool, "UnexpectedBlock")
        ELSE IF slashed = SlashedErr
        THEN InsertResult(pool, "InvalidEpochTarget")
        ELSE IF SlotTaken(pool, slashed, slot_number)
        THEN InsertResult(pool, "SlotAlreadySlashed")
        ELSE IF ~verify(fork_proof, public_key(slot_number))
        THEN InsertResult(pool, "InvalidProof")
        ELSE InsertResult(
                MkPool(MapInsert(pool.fork_proofs, h, <<fork_proof, slot_number>>),
                       pool.fork_proof_slots \cup {slot_number}),
                IF slot_number \notin pool.fork_proof_slots
                THEN "Ok(true)" ELSE "Ok(false)")

\* ------------------------------------------------------------ housekeeping
\* Proofs of the previous epoch are kept whatever previous_slashed_set holds.
Retained_CurrentOnly(pool, h, block_number, current_slashed_set, previous_slashed_set) ==
    LET fork_proof == pool.fork_proofs[h][1]
        slot_number == pool.fork_proofs[h][2]
    IN  /\ is_valid_at(fork_proof, block_number)
        /\ epoch_at(fork_proof.block_number) = epoch_at(block_number)
              => slot_number \notin current_slashed_set

\* The closure handed to retain.
Retained(pool, h, block_number, current_slashed_set, previous_slashed_set) ==
    LET fork_proof == pool.fork_proofs[h][1]
        slot_number == pool.fork_proofs[h][2]
        current_epoch == epoch_at(block_number)
    IN  IF ~is_valid_at(fork_proof, block_number)
        THEN FALSE
        ELSE IF epoch_at(fork_proof.block_number) = current_epoch
        THEN slot_number \notin current_slashed_set
        ELSE slot_number \notin previous_slashed_set

\* ForkProofPool::housekeeping: retain on fork_proofs; fork_proof_slots is
\* not touched.
housekeeping(pool, block_number, current_slashed_set, previous_slashed_set) ==
    MkPool(MapRestrict(pool.fork_proofs,
                       { h \in DOMAIN pool.fork_proofs :
                           Retained(pool, h, block_number,
                                    current_slashed_set, previous_slashed_set) }),
           pool.fork_proof_slots)

\* ------------------------------------------------------------------ blocks
\* Block::Macro, or Block::Micro with extrinsics None or Some(fork_proofs).
SeqsUpTo(S, n) == UNION { [1 .. k -> S] : k \in 0 .. n }

\* The fork proofs of a block's extrinsics: a valid block slashes a slot at
\* most once, so no two of its proofs are about the same position.
ProofLists ==
    { s \in SeqsUpTo(ForkProofs, MaxBlockProofs) :
        \A i, j \in DOMAIN s :
            i # j => <<s[i].block_number, s[i].view_number>>
                     # <<s[j].block_number, s[j].view_number>> }

Blocks ==
    { [kind |-> "Macro", extrinsics |-> FALSE, fork_proofs |-> <<>>],
      [kind |-> "Micro", extrinsics |-> FALSE, fork_proofs |-> <<>>] }
    \cup { [kind |-> "Micro", extrinsics |-> TRUE, fork_proofs |-> s] : s \in ProofLists }

\* if let Block::Micro(MicroBlock { extrinsics: Some(extrinsics), .. }) = block
HasExtrinsics(block) == block.kind = "Micro" /\ block.extrinsics

\* The entry is removed, its slot number stays.
apply_proof_KeepsSlot(pool, fork_proof) ==
    MkPool(MapRestrict(pool.fork_proofs, DOMAIN pool.fork_proofs \ {hash(fork_proof)}),
           pool.fork_proof_slots)

\* The body of apply_block's loop, for one fork proof.
apply_proof(pool, fork_proof) ==
    LET h == hash(fork_proof)
    IN  IF h \in DOMAIN pool.fork_proofs
        THEN MkPool(MapRestrict(pool.fork_proofs, DOMAIN pool.fork_proofs \ {h}),
                    pool.fork_proof_slots \ {SlotOf(pool, h)})
        ELSE pool

RECURSIVE apply_proofs(_, _)
apply_proofs(pool, proofs) ==
    IF proofs = <<>> THEN pool
    ELSE apply_proofs(apply_proof(pool, Head(proofs)), Tail(proofs))

\* ForkProofPool::apply_block
apply_block(pool, block) ==
    IF HasExtrinsics(block) THEN apply_proofs(pool, block.fork_proofs) ELSE pool

\* The proof is put back, its slot number is not.
revert_proof_ForgetsSlot(pool, chain, fork_proof) ==
    LET slot_number == get_slot_at(chain, fork_proof.block_number, fork_proof.view_number)
    IN  IF slot_number # NoSlot
        THEN MkPool(MapInsert(pool.fork_proofs, hash(fork_proof),
                              <<fork_proof, slot_number>>),
                    pool.fork_proof_slots)
        ELSE pool

\* The body of revert_block's loop, for one fork proof.
revert_proof(pool, chain, fork_proof) ==
    LET block_number == fork_proof.block_number
        view_number == fork_proof.view_number
        slot_number == get_slot_at(chain, block_number, view_number)
    IN  IF slot_number # NoSlot
        THEN MkPool(MapInsert(pool.fork_proofs, hash(fork_proof),
                              <<fork_proof, slot_number>>),
                    pool.fork_proof_slots \cup {slot_number})
        ELSE pool

\* The loop ends at the first proof whose slot cannot be determined.
RECURSIVE revert_proofs_StopAtNone(_, _, _)
revert_proofs_StopAtNone(pool, chain, proofs) ==
    IF proofs = <<>> THEN pool
    ELSE IF get_slot_at(chain, Head(proofs).block_number, Head(proofs).view_number) = NoSlot
    THEN pool
    ELSE revert_proofs_StopAtNone(revert_proof(pool, chain, Head(proofs)), chain,
                                  Tail(proofs))

RECURSIVE revert_proofs(_, _, _)
revert_proofs(pool, chain, proofs) ==
    IF proofs = <<>> THEN pool
    ELSE revert_proofs(revert_proof(pool, chain, Head(proofs)), chain, Tail(proofs))

\* ForkProofPool::revert_block
revert_block(pool, chain, block) ==
    IF HasExtrinsics(block) THEN revert_proofs(pool, chain, block.fork_proofs) ELSE pool

\* ----------------------------------------------- get_fork_proofs_for_block
\* The orders in which HashMap::values can enumerate the map.
Orders(map) ==
    { o \in [1 .. Cardinality(DOMAIN map) -> DOMAIN map] :
        \A i, j \in DOMAIN o : i # j => o[i] # o[j] }

\* The budget test with <= for <.
Fits_OrEqual(size, proof, max_size) == size + proof.size <= max_size

\* if size + proof.serialized_size() < max_size
Fits(size, proof, max_size) == size + proof.size < max_size

\* The loop of get_fork_proofs_for_block over the rest of the enumeration.
\* The loop ends at the first proof that does not fit.
RECURSIVE fill_StopAtFirst(_, _, _, _, _)
fill_StopAtFirst(pool, order, max_size, size, proofs) ==
    IF order = <<>> THEN proofs
    ELSE LET proof == pool.fork_proofs[Head(order)][1]
         IN  IF Fits(size, proof, max_size)
             THEN fill_StopAtFirst(pool, Tail(order), max_size, size + proof.size,
                                   Append(proofs, proof))
             ELSE proofs

RECURSIVE fill(_, _, _, _, _)
fill(pool, order, max_size, size, proofs) ==
    IF order = <<>> THEN proofs
    ELSE LET proof == pool.fork_proofs[Head(order)][1]
         IN  IF Fits(size, proof, max_size)
             THEN fill(pool, Tail(order), max_size, size + proof.size,
                       Append(proofs, proof))
             ELSE fill(pool, Tail(order), max_size, size, proofs)

\* ForkProofPool::get_fork_proofs_for_block, for one enumeration order.
get_fork_proofs_for_block(pool, max_size, order) ==
    fill(pool, order, max_size, 0, <<>>)

RECURSIVE SumSize(_)
SumSize(proofs) ==
    IF proofs = <<>> THEN 0 ELSE Head(proofs).size + SumSize(Tail(proofs))

\* -------------------------------------------------- signed message envelope
\* The consensus messages that are signed: a ViewChange carries block_number
\* and new_view_number, a PbftPrepare and a PbftCommit carry a block hash.
Kinds == {"ViewChange", "PbftPrepare", "PbftCommit"}

\* Message::PREFIX, the domain separation byte of each kind.
PREFIX(kind) ==
    CASE kind = "ViewChange" -> 1
      [] kind = "PbftPrepare" -> 2
      [] kind = "PbftCommit" -> 3

\* The length of a Blake2bHash.
HASH_SIZE == 32

\* Blake2b of the inputs used: 32 bytes, different inputs giving different digests.
Blake2b(data) == [i \in 1 .. HASH_SIZE |-> (data * 16 + i) % 256]

\* A u32 in big-endian bytes.
U32BE(n) ==
    << (n \div 16777216) % 256, (n \div 65536) % 256, (n \div 256) % 256, n % 256 >>

MkViewChange(block_number, new_view_number) ==
    [kind |-> "ViewChange", block_number |-> block_number,
     new_view_number |-> new_view_number, block_hash |-> <<>>]

MkPbft(kind, block_hash) ==
    [kind |-> kind, block_number |-> 0, new_view_number |-> 0, block_hash |-> block_hash]

\* The messages signed in the model: the view change of the test, one more,
\* and prepare and commit messages over the hash of "foobar" (1) and of
\* another block (2).
Messages ==
    { MkViewChange(1234, v) : v \in {42, 43} }
    \cup { MkPbft(k, Blake2b(d)) : k \in {"PbftPrepare", "PbftCommit"}, d \in {1, 2} }

\* beserial's serialization of the message alone.
serialize(message) ==
    IF message.kind = "ViewChange"
    THEN U32BE(message.block_number) \o U32BE(message.new_view_number)
    ELSE message.block_hash

\* The prefix byte left out: the message's own bytes are signed.
SignedBytes_NoPrefix(message) == serialize(message)

\* The bytes that are signed and verified: PREFIX || serialize(message).
SignedBytes(message) == <<PREFIX(message.kind)>> \o serialize(message)

\* The validators' key pairs, named by their secret keys.
SecretKeys == {1, 2}

PublicKeyOf(secret_key) == [owner |-> secret_key]

PublicKeys == { PublicKeyOf(k) : k \in SecretKeys }

\* A BLS signature, as what it authenticates: the bytes and the signing key.
bls_sign(secret_key, bytes) == [signer |-> PublicKeyOf(secret_key), bytes |-> bytes]

bls_verify(validator_key, signature, bytes) ==
    signature.signer = validator_key /\ signature.bytes = bytes

\* Message::sign
sign(message, secret_key) == bls_sign(secret_key, SignedBytes(message))

\* Message::verify
verify_message(message, signature, validator_key) ==
    bls_verify(validator_key, signature, SignedBytes(message))

\* SignedMessage::verify
verify_signed(signed, validator_key) ==
    verify_message(signed.message, signed.signature, validator_key)

NoMessage == [kind |-> "None", block_number |-> 0, new_view_number |-> 0, block_hash |-> <<>>]

\* No signed message exists yet. origin is the message sign was called on.
NoSigned ==
    [message |-> NoMessage, signer_idx |-> 0,
     signature |-> [signer |-> [owner |-> 0], bytes |-> <<>>], origin |-> NoMessage]

NotVerified == [done |-> FALSE, result |-> FALSE, key |-> [owner |-> 0]]

\* ------------------------------------------------ threshold proof builder
\* policy::SLOTS, the number of validator slots, and the two-thirds threshold.
SLOTS == 4

TWO_THIRD_SLOTS == (2 * SLOTS + 2) \div 3

\* Largest number of bands of a slot assignment.
MaxBands == 3

\* The validators' secret keys.
ValidatorKeys == SecretKeys \cup {3}

\* ValidatorSlotBand: a validator's key and the number of slots it owns.
Bands ==
    [public_key : { PublicKeyOf(k) : k \in ValidatorKeys }, slot_count : 1 .. SLOTS]

RECURSIVE SlotCount(_)
SlotCount(bands) ==
    IF bands = <<>> THEN 0 ELSE Head(bands).slot_count + SlotCount(Tail(bands))

\* ValidatorSlots: bands of distinct validators whose slot counts sum to SLOTS.
Assignments ==
    { v \in UNION { [1 .. k -> Bands] : k \in 1 .. MaxBands } :
        /\ SlotCount(v) = SLOTS
        /\ \A i, j \in DOMAIN v : i # j => v[i].public_key # v[j].public_key }

\* ViewChangeProofBuilder::new
NewBuilder == [message |-> NoMessage, contributions |-> {}]

\* SignedMessage::from_message
from_message(message, secret_key, signer_idx) ==
    [message |-> message, signer_idx |-> signer_idx,
     signature |-> sign(message, secret_key)]

\* add_signature: a second contribution of a band is ignored, one on another
\* message than the accepted ones is rejected.
add_signature(b, validator_key, slot_weight, signed) ==
    IF \E c \in b.contributions : c.signer_idx = signed.signer_idx
    THEN b
    ELSE IF b.contributions # {} /\ signed.message # b.message
    THEN b
    ELSE [message |-> signed.message,
          contributions |-> b.contributions
              \cup {[signer_idx |-> signed.signer_idx, signature |-> signed.signature]}]

\* build: the aggregate of the accepted signatures and the bitmap of their bands.
build(b) ==
    [aggregate_signature |-> { c.signature : c \in b.contributions },
     signer_bitmap |-> { c.signer_idx : c \in b.contributions }]

\* Every marked band counts for one.
Weight_CountBands(vals, bitmap) == Cardinality(bitmap)

\* The summed slot_count of the bands marked in the bitmap.
RECURSIVE Weight(_, _)
Weight(vals, bitmap) ==
    IF bitmap = {} THEN 0
    ELSE LET i == CHOOSE x \in bitmap : TRUE
         IN  vals[i + 1].slot_count + Weight(vals, bitmap \ {i})

\* An aggregate signature verifies against the summed key of the marked bands
\* when it is the aggregate of their signatures on the bytes.
bls_verify_aggregate(keys, aggregate_signature, bytes) ==
    aggregate_signature = { [signer |-> k, bytes |-> bytes] : k \in keys }

\* ThresholdProof::verify
verify_proof(proof, message, vals, threshold) ==
    IF proof.signer_bitmap = {}
       \/ \E i \in proof.signer_bitmap : i \notin 0 .. Len(vals) - 1
    THEN "InvalidBitmap"
    ELSE IF Weight(vals, proof.signer_bitmap) < threshold
    THEN "InsufficientWeight"
    ELSE IF ~bls_verify_aggregate({ vals[i + 1].public_key : i \in proof.signer_bitmap },
                                  proof.aggregate_signature, SignedBytes(message))
    THEN "InvalidSignature"
    ELSE "ok"

NoValidators == <<>>

\* No proof has been built in this round.
NoProof == [aggregate_signature |-> {}, signer_bitmap |-> {}]

NoResult == [result |-> "none", message |-> NoMessage, threshold |-> 0]

\* ------------------------------------------------------------ peer address
\* Protocol as u8.
ProtocolTag(protocol) ==
    CASE protocol = "Dumb" -> 0
      [] protocol = "Wss" -> 1
      [] protocol = "Rtc" -> 2
      [] protocol = "Ws" -> 4

\* Deserialize for Protocol: the variant of a tag byte, if it is one.
ProtocolOf(tag) ==
    IF \E q \in {"Dumb", "Wss", "Rtc", "Ws"} : ProtocolTag(q) = tag
    THEN CHOOSE q \in {"Dumb", "Wss", "Rtc", "Ws"} : ProtocolTag(q) = tag
    ELSE "Unknown"

\* Host names, as the bytes of the String, and ports.
Hosts == { <<104>>, <<104, 105>> }

Ports == { 80, 8443 }

\* PeerAddressType: Dumb, Ws(host, port), Wss(host, port), Rtc.
PeerAddressTypes ==
    { [kind |-> k, host |-> <<>>, port |-> 0] : k \in {"Dumb", "Rtc"} }
    \cup { [kind |-> k, host |-> h, port |-> q] : k \in {"Ws", "Wss"}, h \in Hosts, q \in Ports }

\* PeerAddressType::get_protocol
get_protocol(ty) == ty.kind

\* A u16 and a u64 in big-endian bytes; the integers of the model are below
\* 2^31, so the upper four bytes of a u64 are 0.
U16BE(n) == << (n \div 256) % 256, n % 256 >>

U64BE(n) == <<0, 0, 0, 0>> \o U32BE(n)

\* The integer a big-endian byte string stands for.
RECURSIVE FromBE(_)
FromBE(bytes) ==
    IF bytes = <<>> THEN 0
    ELSE FromBE(SubSeq(bytes, 1, Len(bytes) - 1)) * 256 + bytes[Len(bytes)]

\* The first n bytes of a reader, and what is left after them.
Take(bytes, n) == SubSeq(bytes, 1, n)

Skip(bytes, n) == SubSeq(bytes, n + 1, Len(bytes))

\* NetAddress: an IPv4 address or Unspecified; on the wire a type byte and,
\* for IPv4, four bytes.
NetAddresses ==
    { [kind |-> "Unspecified", ip |-> <<>>] }
    \cup { [kind |-> "IPv4", ip |-> a] : a \in { <<192, 168, 1, 2>> } }

serialize_net_address(net_address) ==
    IF net_address.kind = "IPv4" THEN <<0>> \o net_address.ip ELSE <<2>>

deserialize_net_address(bytes) ==
    IF Len(bytes) >= 1 /\ bytes[1] = 2
    THEN [ok |-> TRUE, value |-> [kind |-> "Unspecified", ip |-> <<>>], rest |-> Skip(bytes, 1)]
    ELSE IF Len(bytes) >= 5 /\ bytes[1] = 0
    THEN [ok |-> TRUE, value |-> [kind |-> "IPv4", ip |-> SubSeq(bytes, 2, 5)],
          rest |-> Skip(bytes, 5)]
    ELSE [ok |-> FALSE, value |-> [kind |-> "Unspecified", ip |-> <<>>], rest |-> <<>>]

\* The sizes of an Ed25519 public key and signature.
PUBLIC_KEY_SIZE == 32

SIGNATURE_SIZE == 64

\* The peers' key pairs, named by their secret keys.
PeerSecretKeys == {1, 2}

ed_public_key(secret_key) == [i \in 1 .. PUBLIC_KEY_SIZE |-> (secret_key * 16 + i) % 256]

\* A digest of the signed data.
RECURSIVE Checksum(_)
Checksum(data) ==
    IF data = <<>> THEN 0
    ELSE (Checksum(SubSeq(data, 1, Len(data) - 1)) + Len(data) * data[Len(data)]) % 251

\* Ed25519 signing is deterministic: a key and the data give one signature.
ed_sign(secret_key, data) ==
    LET digest == Checksum(data)
    IN  [i \in 1 .. SIGNATURE_SIZE |-> (secret_key * 97 + digest * i + Len(data)) % 256]

\* PublicKey::verify
ed_verify(validator_key, signature, data) ==
    \E k \in PeerSecretKeys :
        ed_public_key(k) = validator_key /\ ed_sign(k, data) = signature

\* The variant tail: host with a u16 length, then port.
VariantTail(ty) ==
    IF ty.kind \in {"Ws", "Wss"}
    THEN U16BE(Len(ty.host)) \o ty.host \o U16BE(ty.port)
    ELSE <<>>

\* net_address takes part in the signed bytes as well.
get_signature_data_WithNetAddress(x) ==
    <<ProtocolTag(get_protocol(x.ty))>> \o U32BE(x.services) \o U64BE(x.timestamp)
        \o serialize_net_address(x.net_address) \o VariantTail(x.ty)

\* PeerAddress::get_signature_data
get_signature_data(x) ==
    <<ProtocolTag(get_protocol(x.ty))>> \o U32BE(x.services) \o U64BE(x.timestamp)
        \o VariantTail(x.ty)

\* PeerAddress::verify_signature
verify_signature(x) == ed_verify(x.public_key, x.signature, get_signature_data(x))

\* impl Serialize for PeerAddress
serialize_peer_address(x) ==
    <<ProtocolTag(get_protocol(x.ty))>>
        \o U32BE(x.services)
        \o U64BE(x.timestamp)
        \o serialize_net_address(x.net_address)
        \o x.public_key
        \o <<x.distance % 256>>
        \o x.signature
        \o VariantTail(x.ty)

\* No address yet: a record without key and signature.
NoPeerAddress ==
    [ty |-> [kind |-> "Dumb", host |-> <<>>, port |-> 0], services |-> 0, timestamp |-> 0,
     net_address |-> [kind |-> "Unspecified", ip |-> <<>>],
     public_key |-> <<>>, distance |-> 0, signature |-> <<>>]

\* Deserialize has not run; also what a failed deserialize leaves to compare.
NotDecoded == [ok |-> FALSE, value |-> NoPeerAddress, consumed |-> 0]

\* Only Ws carries host and port.
HasTail_WsOnly(protocol) == protocol = "Ws"

\* The variants that host and port are read for.
HasTail(protocol) == protocol \in {"Ws", "Wss"}

\* impl Deserialize for PeerAddress: the fields are read in wire order; a
\* short read or an unknown protocol tag is an error.
deserialize_peer_address(bytes) ==
    LET protocol == ProtocolOf(bytes[1])
        r1 == Skip(bytes, 1)
        services == FromBE(Take(r1, 4))
        r2 == Skip(r1, 4)
        timestamp == FromBE(Take(r2, 8))
        r3 == Skip(r2, 8)
        net == deserialize_net_address(r3)
        r4 == net.rest
        public_key_bytes == Take(r4, PUBLIC_KEY_SIZE)
        r5 == Skip(r4, PUBLIC_KEY_SIZE)
        distance == r5[1]
        r6 == Skip(r5, 1)
        signature == Take(r6, SIGNATURE_SIZE)
        r7 == Skip(r6, SIGNATURE_SIZE)
        host_len == FromBE(Take(r7, 2))
        host == SubSeq(r7, 3, 2 + host_len)
        r8 == Skip(r7, 2 + host_len)
        port == FromBE(Take(r8, 2))
        rest == IF HasTail(protocol) THEN Skip(r8, 2) ELSE r7
        ok == /\ Len(bytes) >= 1 /\ protocol # "Unknown"
              /\ Len(r1) >= 4
              /\ Len(r2) >= 8
              /\ net.ok
              /\ Len(r4) >= PUBLIC_KEY_SIZE
              /\ Len(r5) >= 1
              /\ Len(r6) >= SIGNATURE_SIZE
              /\ HasTail(protocol) =>
                   (Len(r7) >= 2 /\ Len(r7) >= 2 + host_len /\ Len(r8) >= 2)
    IN  IF ok
        THEN [ok |-> TRUE,
              value |-> [ty |-> IF HasTail(protocol)
                                THEN [kind |-> protocol, host |-> host, port |-> port]
                                ELSE [kind |-> protocol, host |-> <<>>, port |-> 0],
                         services |-> services, timestamp |-> timestamp,
                         net_address |-> net.value, public_key |-> public_key_bytes,
                         distance |-> distance, signature |-> signature],
              consumed |-> Len(bytes) - Len(rest)]
        ELSE NotDecoded

\* ------------------------------------------------- insert, step by step
\* Largest number of writes to the chain state that are followed.
MaxWrites == 2

\* No insert call is in progress. guard is the read guard state() returns;
\* seen lists the chain version each read of the call observed.
Idle ==
    [pc |-> "idle", proof |-> 0, guard |-> FALSE, height |-> 0, slot |-> NoSlot,
     slashed |-> {}, seen |-> <<>>, result |-> ""]

\* ----------------------------------------------------------------- actions
Call(op, arg, result, n) == [op |-> op, arg |-> arg, result |-> result, n |-> n]

NoBlock == [kind |-> "None", extrinsics |-> FALSE, fork_proofs |-> <<>>]

\* No apply_block / revert_block round trip is being followed.
NotApplied == [status |-> "none", block |-> NoBlock, before |-> NewPool]

Init ==
    /\ fork_proofs = NewPool.fork_proofs
    /\ fork_proof_slots = NewPool.fork_proof_slots
    /\ blockchain \in ChainStates
    /\ last = Call("new", 0, "", 0)
    /\ applied = NotApplied
    /\ chain_slashed = {}
    /\ version = 0
    /\ ins = Idle
    /\ signed_message = NoSigned
    /\ verified = NotVerified
    /\ validators = NoValidators
    /\ builder = NewBuilder
    /\ threshold_proof = NoProof
    /\ proof_result = NoResult
    /\ peer_address = NoPeerAddress
    /\ relayed_address = NoPeerAddress
    /\ wire = <<>>
    /\ decoded = NotDecoded
    /\ signature_ok = "none"

SetPool(pool) ==
    /\ fork_proofs' = pool.fork_proofs
    /\ fork_proof_slots' = pool.fork_proof_slots

\* Anything but the revert_block that directly follows an apply_block ends
\* the round trip that is being followed.
Touch == applied' = NotApplied

Insert(fork_proof, slashed) ==
    LET r == insert(Pool, blockchain, slashed, fork_proof)
    IN  /\ SetPool(r.pool)
        /\ last' = Call("insert", hash(fork_proof), r.result, 0)
        /\ Touch
        /\ UNCHANGED <<blockchain, concvars, signvars, proofvars, peervars>>

\* housekeeping is run against the chain's head: block_number is the head's
\* block number, the two sets are the chain's slashed sets at that moment.
Housekeeping(current_slashed_set, previous_slashed_set) ==
    /\ SetPool(housekeeping(Pool, blockchain.block_number,
                            current_slashed_set, previous_slashed_set))
    /\ last' = Call("housekeeping", 0, "", 0)
    /\ Touch
    /\ UNCHANGED <<blockchain, concvars, signvars, proofvars, peervars>>

ApplyBlock(block) ==
    /\ SetPool(apply_block(Pool, block))
    /\ last' = Call("apply_block", 0, "", 0)
    /\ applied' = [status |-> "applied", block |-> block, before |-> Pool]
    /\ UNCHANGED <<blockchain, concvars, signvars, proofvars, peervars>>

RevertBlock(block) ==
    LET pool == revert_block(Pool, blockchain, block)
    IN  /\ SetPool(pool)
        /\ last' = Call("revert_block", 0, "", 0)
        /\ applied' = IF applied.status = "applied" /\ applied.block = block
                      THEN [status |-> IF pool = applied.before
                                       THEN "restored" ELSE "changed",
                            block |-> block, before |-> NewPool]
                      ELSE NotApplied
        /\ UNCHANGED <<blockchain, concvars, signvars, proofvars, peervars>>

GetForkProofsForBlock(max_size, order) ==
    LET proofs == get_fork_proofs_for_block(Pool, max_size, order)
    IN  /\ last' = Call("get_fork_proofs_for_block", 0, "", Len(proofs))
        /\ Touch
        /\ UNCHANGED <<fork_proofs, fork_proof_slots, blockchain, concvars, signvars, proofvars, peervars>>

\* The chain appends a block.
ChainPush ==
    /\ blockchain.block_number < MaxHeight
    /\ blockchain' = [blockchain EXCEPT !.block_number = @ + 1]
    /\ Touch
    /\ last' = Call("chain", 0, "", 0)
    /\ UNCHANGED <<fork_proofs, fork_proof_slots, concvars, signvars, proofvars, peervars>>

\* The chain reverts its head.
ChainRevert ==
    /\ blockchain.block_number > 0
    /\ blockchain' = [blockchain EXCEPT !.block_number = @ - 1]
    /\ Touch
    /\ last' = Call("chain", 0, "", 0)
    /\ UNCHANGED <<fork_proofs, fork_proof_slots, concvars, signvars, proofvars, peervars>>

\* A reorganisation changes what get_slot_at answers for one position.
ChainReorg(position, slot) ==
    /\ blockchain.slots[position] # slot
    /\ blockchain' = [blockchain EXCEPT !.slots[position] = slot]
    /\ Touch
    /\ last' = Call("chain", 0, "", 0)
    /\ UNCHANGED <<fork_proofs, fork_proof_slots, concvars, signvars, proofvars, peervars>>

Next ==
    \/ \E p \in ForkProofs, s \in SlashedAnswers : Insert(p, s)
    \/ \E c \in SUBSET Slots, q \in SUBSET Slots : Housekeeping(c, q)
    \/ \E b \in Blocks : ApplyBlock(b)
    \/ \E b \in Blocks : RevertBlock(b)
    \/ \E m \in 0 .. MaxBytes, o \in Orders(fork_proofs) : GetForkProofsForBlock(m, o)
    \/ ChainPush
    \/ ChainRevert
    \/ \E pos \in Positions, s \in Slots \cup {NoSlot} : ChainReorg(pos, s)

Spec == Init /\ [][Next]_vars

\* insert and housekeeping alone, on a moving chain.
NextHousekeeping ==
    \/ \E p \in ForkProofs, s \in SlashedAnswers : Insert(p, s)
    \/ \E c \in SUBSET Slots, q \in SUBSET Slots : Housekeeping(c, q)
    \/ ChainPush
    \/ ChainRevert
    \/ \E pos \in Positions, s \in Slots \cup {NoSlot} : ChainReorg(pos, s)

SpecHousekeeping == Init /\ [][NextHousekeeping]_vars

\* -------------------------------------- insert against a concurrent chain
\* The chain state the steps of one insert have read.
SeenChain(fork_proof) ==
    [block_number |-> ins.height,
     slots |-> [pos \in Positions |->
                  IF pos = <<fork_proof.block_number, fork_proof.view_number>>
                  THEN ins.slot ELSE NoSlot]]

\* insert returns: the read guard goes out of scope.
Return(result) == [ins EXCEPT !.pc = "returned", !.guard = FALSE, !.result = result]

\* The guard is dropped as soon as block_number has been read.
BeginInsert_NoGuard(fork_proof) ==
    /\ ins.pc = "idle"
    /\ ins' = IF AlreadyKnown(Pool, fork_proof)
              THEN [Idle EXCEPT !.pc = "returned", !.proof = hash(fork_proof),
                                !.result = "Ok(false)"]
              ELSE [Idle EXCEPT !.pc = "valid", !.proof = hash(fork_proof),
                                !.guard = FALSE,
                                !.height = blockchain.block_number,
                                !.seen = <<version>>]
    /\ UNCHANGED <<fork_proofs, fork_proof_slots, blockchain, last, applied,
                   chain_slashed, version, signvars, proofvars, peervars>>

\* The duplicate check, then blockchain.state(): the read guard is taken and
\* block_number is read under it.
BeginInsert(fork_proof) ==
    /\ ins.pc = "idle"
    /\ ins' = IF AlreadyKnown(Pool, fork_proof)
              THEN [Idle EXCEPT !.pc = "returned", !.proof = hash(fork_proof),
                                !.result = "Ok(false)"]
              ELSE [Idle EXCEPT !.pc = "valid", !.proof = hash(fork_proof),
                                !.guard = TRUE,
                                !.height = blockchain.block_number,
                                !.seen = <<version>>]
    /\ UNCHANGED <<fork_proofs, fork_proof_slots, blockchain, last, applied,
                   chain_slashed, version, signvars, proofvars, peervars>>

\* if !fork_proof.is_valid_at(blockchain_height)
CheckValid ==
    /\ ins.pc = "valid"
    /\ ins' = IF ~is_valid_at(ProofOf(ins.proof), ins.height)
              THEN Return("InvalidEpochTarget")
              ELSE [ins EXCEPT !.pc = "slot"]
    /\ UNCHANGED <<fork_proofs, fork_proof_slots, blockchain, last, applied,
                   chain_slashed, version, signvars, proofvars, peervars>>

\* self.blockchain.get_slot_at(block_number, view_number, None)
GetSlot ==
    /\ ins.pc = "slot"
    /\ LET p == ProofOf(ins.proof)
           slot_number == get_slot_at(blockchain, p.block_number, p.view_number)
           seen == Append(ins.seen, version)
       IN  ins' = IF slot_number = NoSlot
                  THEN [Return("UnexpectedBlock") EXCEPT !.seen = seen]
                  ELSE [ins EXCEPT !.pc = "slashed", !.slot = slot_number, !.seen = seen]
    /\ UNCHANGED <<fork_proofs, fork_proof_slots, blockchain, last, applied,
                   chain_slashed, version, signvars, proofvars, peervars>>

\* self.blockchain.slashed_set_for_epoch(epoch)
GetSlashedSet ==
    /\ ins.pc = "slashed"
    /\ LET seen == Append(ins.seen, version)
       IN  ins' = IF chain_slashed = SlashedErr
                  THEN [Return("InvalidEpochTarget") EXCEPT !.seen = seen]
                  ELSE [ins EXCEPT !.pc = "check", !.slashed = chain_slashed, !.seen = seen]
    /\ UNCHANGED <<fork_proofs, fork_proof_slots, blockchain, last, applied,
                   chain_slashed, version, signvars, proofvars, peervars>>

\* The slashed-slot check, the verification and the two inserts, on what the
\* call has read.
Finish ==
    /\ ins.pc = "check"
    /\ LET p == ProofOf(ins.proof)
           r == insert(Pool, SeenChain(p), ins.slashed, p)
       IN  /\ SetPool(r.pool)
           /\ ins' = Return(r.result)
    /\ UNCHANGED <<blockchain, last, applied, chain_slashed, version, signvars, proofvars, peervars>>

\* The caller takes the result.
Returned ==
    /\ ins.pc = "returned"
    /\ ins' = Idle
    /\ UNCHANGED <<fork_proofs, fork_proof_slots, blockchain, last, applied,
                   chain_slashed, version, signvars, proofvars, peervars>>

\* A writer of the chain state waits until no read guard is held.
WriterMayRun == ~ins.guard /\ version < MaxWrites

\* Another thread appends a block: the height advances, the slashed set may grow.
ConcurrentPush(newly_slashed) ==
    /\ WriterMayRun
    /\ blockchain.block_number < MaxHeight
    /\ blockchain' = [blockchain EXCEPT !.block_number = @ + 1]
    /\ chain_slashed' = IF chain_slashed = SlashedErr THEN newly_slashed
                        ELSE chain_slashed \cup newly_slashed
    /\ version' = version + 1
    /\ UNCHANGED <<fork_proofs, fork_proof_slots, last, applied, ins, signvars, proofvars, peervars>>

\* Another thread reverts the head: the height drops, a position may resolve
\* differently and the slashed set is the reverted-to one.
ConcurrentRevert(position, slot, slashed) ==
    /\ WriterMayRun
    /\ blockchain.block_number > 0
    /\ blockchain' = [blockchain EXCEPT !.block_number = @ - 1,
                                        !.slots[position] = slot]
    /\ chain_slashed' = slashed
    /\ version' = version + 1
    /\ UNCHANGED <<fork_proofs, fork_proof_slots, last, applied, ins, signvars, proofvars, peervars>>

NextConc ==
    \/ \E p \in ForkProofs : BeginInsert(p)
    \/ CheckValid
    \/ GetSlot
    \/ GetSlashedSet
    \/ Finish
    \/ Returned
    \/ \E s \in SUBSET Slots : ConcurrentPush(s)
    \/ \E pos \in Positions, s \in Slots \cup {NoSlot}, a \in SlashedAnswers :
          ConcurrentRevert(pos, s, a)

SpecConc == Init /\ [][NextConc]_vars

\* --------------------------------------------------- signing and verifying
\* SignedMessage::from_message: sign_with_index.
SignMessage(message, secret_key, signer_idx) ==
    /\ signed_message' = [message |-> message, signer_idx |-> signer_idx,
                          signature |-> sign(message, secret_key), origin |-> message]
    /\ verified' = NotVerified
    /\ UNCHANGED <<fork_proofs, fork_proof_slots, blockchain, last, applied, concvars,
                   proofvars, peervars>>

\* test_replay: the signature of one message is put into the SignedMessage of
\* another one, with signer_idx 0.
Replay(message) ==
    /\ signed_message.origin # NoMessage
    /\ signed_message' = [signed_message EXCEPT !.message = message, !.signer_idx = 0]
    /\ verified' = NotVerified
    /\ UNCHANGED <<fork_proofs, fork_proof_slots, blockchain, last, applied, concvars,
                   proofvars, peervars>>

\* signed.verify(&public_key)
Verify(validator_key) ==
    /\ signed_message.origin # NoMessage
    /\ verified' = [done |-> TRUE, result |-> verify_signed(signed_message, validator_key),
                    key |-> validator_key]
    /\ UNCHANGED <<fork_proofs, fork_proof_slots, blockchain, last, applied, concvars,
                   signed_message, proofvars, peervars>>

NextSigned ==
    \/ \E m \in Messages, k \in SecretKeys : SignMessage(m, k, 0)
    \/ \E m \in Messages : Replay(m)
    \/ \E k \in PublicKeys : Verify(k)

SpecSigned == Init /\ [][NextSigned]_vars

\* ------------------------------------------------------ aggregation rounds
\* The chain plays no part in these runs: it stays at the genesis block.
GenesisChain == [block_number |-> 0, slots |-> [pos \in Positions |-> NoSlot]]

InitGenesis == Init /\ blockchain = GenesisChain

\* The slot assignment of the epoch becomes known.
SetValidators(vals) ==
    /\ validators = NoValidators
    /\ validators' = vals
    /\ UNCHANGED <<fork_proofs, fork_proof_slots, blockchain, last, applied, concvars,
                   signvars, builder, threshold_proof, proof_result, peervars>>

\* A validator signs the message with its index; the signature is added to
\* the builder with the band's key and weight.
AddSignature(signer_idx, message, secret_key) ==
    /\ signer_idx \in 0 .. Len(validators) - 1
    /\ threshold_proof = NoProof /\ proof_result = NoResult
    /\ builder' = add_signature(builder, validators[signer_idx + 1].public_key,
                                validators[signer_idx + 1].slot_count,
                                from_message(message, secret_key, signer_idx))
    /\ UNCHANGED <<fork_proofs, fork_proof_slots, blockchain, last, applied, concvars,
                   signvars, validators, threshold_proof, proof_result, peervars>>

\* proof_builder.build(): the builder is consumed.
Build ==
    /\ validators # NoValidators
    /\ threshold_proof = NoProof /\ proof_result = NoResult
    /\ threshold_proof' = build(builder)
    /\ builder' = NewBuilder
    /\ UNCHANGED <<fork_proofs, fork_proof_slots, blockchain, last, applied, concvars,
                   signvars, validators, proof_result, peervars>>

\* view_change_proof.verify(&view_change, &validators, threshold)
VerifyProof(message, threshold) ==
    /\ validators # NoValidators
    /\ proof_result' = [result |-> verify_proof(threshold_proof, message, validators,
                                                 threshold),
                        message |-> message, threshold |-> threshold]
    /\ UNCHANGED <<fork_proofs, fork_proof_slots, blockchain, last, applied, concvars,
                   signvars, validators, builder, threshold_proof, peervars>>

\* The next aggregation round starts with a fresh builder.
StartRound ==
    /\ threshold_proof # NoProof \/ proof_result # NoResult
    /\ builder' = NewBuilder
    /\ threshold_proof' = NoProof
    /\ proof_result' = NoResult
    /\ UNCHANGED <<fork_proofs, fork_proof_slots, blockchain, last, applied, concvars,
                   signvars, validators, peervars>>

\* The view changes validators sign.
ViewChanges == { m \in Messages : m.kind = "ViewChange" }

NextThreshold ==
    \/ \E v \in Assignments : SetValidators(v)
    \/ \E i \in 0 .. MaxBands - 1, m \in ViewChanges, k \in ValidatorKeys :
          AddSignature(i, m, k)
    \/ Build
    \/ \E m \in ViewChanges, t \in 0 .. SLOTS + 1 : VerifyProof(m, t)
    \/ StartRound

SpecThreshold == InitGenesis /\ [][NextThreshold]_vars

\* ---------------------------------------------------------- peer addresses
\* The services and timestamps of the records made.
ServiceFlags == {258}

Timestamps == {0, 65537}

Distances == {0, 1, 2}

\* The owner makes its record and signs get_signature_data with its key.
CreatePeerAddress(ty, services, timestamp, net_address, secret_key) ==
    /\ peer_address = NoPeerAddress
    /\ LET unsigned == [ty |-> ty, services |-> services, timestamp |-> timestamp,
                        net_address |-> net_address,
                        public_key |-> ed_public_key(secret_key), distance |-> 0,
                        signature |-> NoPeerAddress.signature]
           x == [unsigned EXCEPT !.signature = ed_sign(secret_key,
                                                        get_signature_data(unsigned))]
       IN  /\ peer_address' = x
           /\ relayed_address' = x
    /\ wire' = <<>>
    /\ decoded' = NotDecoded
    /\ signature_ok' = "none"
    /\ UNCHANGED <<fork_proofs, fork_proof_slots, blockchain, last, applied, concvars,
                   signvars, proofvars>>

\* A peer passes the record on with the net_address it observed and its own
\* distance.
Relay(net_address, distance) ==
    /\ peer_address # NoPeerAddress
    /\ relayed_address' = [relayed_address EXCEPT !.net_address = net_address,
                                                  !.distance = distance]
    /\ wire' = <<>>
    /\ decoded' = NotDecoded
    /\ signature_ok' = "none"
    /\ UNCHANGED <<fork_proofs, fork_proof_slots, blockchain, last, applied, concvars,
                   signvars, proofvars, peer_address>>

\* A peer passes the record on with another timestamp, which the owner did
\* not sign.
Forge(timestamp) ==
    /\ peer_address # NoPeerAddress
    /\ timestamp # relayed_address.timestamp
    /\ relayed_address' = [relayed_address EXCEPT !.timestamp = timestamp]
    /\ wire' = <<>>
    /\ decoded' = NotDecoded
    /\ signature_ok' = "none"
    /\ UNCHANGED <<fork_proofs, fork_proof_slots, blockchain, last, applied, concvars,
                   signvars, proofvars, peer_address>>

\* relayed_address.serialize(writer)
Serialize ==
    /\ peer_address # NoPeerAddress
    /\ wire = <<>>
    /\ wire' = serialize_peer_address(relayed_address)
    /\ UNCHANGED <<fork_proofs, fork_proof_slots, blockchain, last, applied, concvars,
                   signvars, proofvars, peer_address, relayed_address, decoded,
                   signature_ok>>

\* The connection ends before the whole record arrived.
ShortRead(n) ==
    /\ wire # <<>> /\ n < Len(wire)
    /\ decoded = NotDecoded
    /\ wire' = Take(wire, n)
    /\ UNCHANGED <<fork_proofs, fork_proof_slots, blockchain, last, applied, concvars,
                   signvars, proofvars, peer_address, relayed_address, decoded,
                   signature_ok>>

\* PeerAddress::deserialize(reader)
Deserialize ==
    /\ wire # <<>>
    /\ decoded' = deserialize_peer_address(wire)
    /\ UNCHANGED <<fork_proofs, fork_proof_slots, blockchain, last, applied, concvars,
                   signvars, proofvars, peer_address, relayed_address, wire,
                   signature_ok>>

\* relayed_address.verify_signature()
VerifySignature ==
    /\ peer_address # NoPeerAddress
    /\ signature_ok' = IF verify_signature(relayed_address) THEN "true" ELSE "false"
    /\ UNCHANGED <<fork_proofs, fork_proof_slots, blockchain, last, applied, concvars,
                   signvars, proofvars, peer_address, relayed_address, wire, decoded>>

\* Where a read may end: inside the fixed fields, and inside the variant tail.
CutPoints == {5, 60, 113}

NextPeer ==
    \/ \E ty \in PeerAddressTypes, sv \in ServiceFlags, ts \in Timestamps,
          n \in NetAddresses, k \in PeerSecretKeys :
          CreatePeerAddress(ty, sv, ts, n, k)
    \/ \E n \in NetAddresses, d \in Distances : Relay(n, d)
    \/ \E ts \in Timestamps : Forge(ts)
    \/ Serialize
    \/ \E n \in CutPoints : ShortRead(n)
    \/ Deserialize
    \/ VerifySignature

SpecPeer == InitGenesis /\ [][NextPeer]_vars

\* ------------------------------------------------------------------ claims
\* The slot numbers stored in the values of fork_proofs.
StoredSlots(pool) == { SlotOf(pool, h) : h \in DOMAIN pool.fork_proofs }

\* C1: in every reachable pool state fork_proof_slots is exactly the set of
\* slot numbers stored in the values of fork_proofs, and both collections
\* have the same size.
C1_SlotsMatchProofs ==
    /\ fork_proof_slots = StoredSlots(Pool)
    /\ Cardinality(fork_proof_slots) = Cardinality(DOMAIN fork_proofs)

\* C2: in every reachable pool state no two distinct entries of fork_proofs
\* carry the same slot number.
C2_NoSharedSlot ==
    \A h1, h2 \in DOMAIN fork_proofs :
        h1 # h2 => SlotOf(Pool, h1) # SlotOf(Pool, h2)

\* C3: whenever a housekeeping call removes a proof from fork_proofs, the slot
\* number of that proof is not in fork_proof_slots after the call.
C3_HousekeepingFreesSlot ==
    [][last'.op = "housekeeping" =>
          \A h \in DOMAIN fork_proofs \ DOMAIN fork_proofs' :
              SlotOf(Pool, h) \notin fork_proof_slots']_vars

\* C4: when insert(p) returns Ok(true), a second insert(p) right after it
\* returns Ok(false) and leaves fork_proofs and fork_proof_slots as the first
\* call left them, whatever the chain answers at the second call; from the
\* empty pool, fork_proof_slots has one element.
C4_InsertTwice ==
    \A p \in ForkProofs, s \in SlashedAnswers :
        LET first == insert(Pool, blockchain, s, p)
        IN  first.result = "Ok(true)" =>
              /\ \A chain \in ChainStates, s2 \in SlashedAnswers :
                     insert(first.pool, chain, s2, p)
                         = InsertResult(first.pool, "Ok(false)")
              /\ Pool = NewPool => Cardinality(first.pool.fork_proof_slots) = 1

\* A duplicate insert answered Ok(false), the pool holding that one proof.
C4_Witness ==
    /\ last.op = "insert" /\ last.result = "Ok(false)"
    /\ DOMAIN fork_proofs = {last.arg}
    /\ Cardinality(fork_proof_slots) = 1

\* insert gets as far as the slashed-slot check: the proof is not retained
\* yet, is valid at the chain's height, its slot resolves and the slashed set
\* lookup succeeds.
ReachesSlashedCheck(pool, chain, slashed, p) ==
    /\ hash(p) \notin DOMAIN pool.fork_proofs
    /\ is_valid_at(p, chain.block_number)
    /\ get_slot_at(chain, p.block_number, p.view_number) # NoSlot
    /\ slashed # SlashedErr

EmbeddedRetained(pool, chain, block) ==
    \A i \in DOMAIN block.fork_proofs :
        LET p == block.fork_proofs[i]
        IN  /\ hash(p) \in DOMAIN pool.fork_proofs
            /\ get_slot_at(chain, p.block_number, p.view_number) = SlotOf(pool, hash(p))

\* The slot numbers stored with the proofs embedded in block.
EmbeddedSlots(pool, block) ==
    { SlotOf(pool, hash(block.fork_proofs[i])) : i \in DOMAIN block.fork_proofs }

\* C6 as stated: for every pool state and every block B, apply_block(B)
\* followed by revert_block(B) on the same chain state restores fork_proofs and
\* fork_proof_slots, also when B embeds proofs that were not in the pool.
C6_Original ==
    \A b \in Blocks :
        revert_block(apply_block(Pool, b), blockchain, b) = Pool

\* C6 as amended: apply_block(B) followed by revert_block(B) on the same chain
\* state restores fork_proofs when every proof embedded in B was retained,
\* stored with the slot number the chain resolves for it; fork_proof_slots is
\* then what it was plus the slot numbers of B's proofs (so it is restored
\* when it held them before). A macro block, or a micro block without
\* extrinsics, changes nothing.
C6_ApplyRevertRestores ==
    \A b \in Blocks :
        LET after == revert_block(apply_block(Pool, b), blockchain, b)
        IN  /\ (HasExtrinsics(b) /\ EmbeddedRetained(Pool, blockchain, b)) =>
                  /\ after.fork_proofs = fork_proofs
                  /\ after.fork_proof_slots = fork_proof_slots \cup EmbeddedSlots(Pool, b)
                  /\ EmbeddedSlots(Pool, b) \subseteq fork_proof_slots => after = Pool
            /\ ~HasExtrinsics(b) => after = Pool

\* revert_block(B) right after apply_block(B) gave back the pool, B's proofs
\* retained again.
C6_Witness ==
    /\ last.op = "revert_block" /\ applied.status = "restored"
    /\ applied.block.fork_proofs # <<>>
    /\ \A i \in DOMAIN applied.block.fork_proofs :
         hash(applied.block.fork_proofs[i]) \in DOMAIN fork_proofs

\* What C7 says of one returned list.
Distinct(proofs) == \A i, j \in DOMAIN proofs : i # j => proofs[i] # proofs[j]

AllRetained(pool, proofs) ==
    \A i \in DOMAIN proofs :
        /\ hash(proofs[i]) \in DOMAIN pool.fork_proofs
        /\ pool.fork_proofs[hash(proofs[i])][1] = proofs[i]

\* C7 as stated: the summed serialized_size of the returned list is strictly
\* less than max_bytes, for every max_bytes.
C7_Original ==
    \A m \in 0 .. MaxBytes, o \in Orders(fork_proofs) :
        SumSize(get_fork_proofs_for_block(Pool, m, o)) < m

\* C7 as amended: the returned proofs are distinct and retained; their summed
\* serialized_size is strictly less than max_bytes whenever the list is not
\* empty; the list is empty when max_bytes is 0 or no retained proof is
\* smaller than max_bytes; the call leaves the pool unchanged.
C7_BudgetRespected ==
    \A m \in 0 .. MaxBytes, o \in Orders(fork_proofs) :
        LET proofs == get_fork_proofs_for_block(Pool, m, o)
        IN  /\ Distinct(proofs)
            /\ AllRetained(Pool, proofs)
            /\ proofs # <<>> => SumSize(proofs) < m
            /\ (m = 0 \/ \A h \in DOMAIN fork_proofs : ~(fork_proofs[h][1].size < m))
                  => proofs = <<>>

C7_PoolUnchanged ==
    [][last'.op = "get_fork_proofs_for_block" /\ last' # last
          => UNCHANGED <<fork_proofs, fork_proof_slots>>]_vars

C7_GetForkProofs == []C7_BudgetRespected /\ C7_PoolUnchanged

\* A call returned two of the retained proofs.
C7_Witness ==
    /\ last.op = "get_fork_proofs_for_block" /\ last.n = 2

\* C8: after every insert, apply_block, revert_block and housekeeping call,
\* every retained proof is valid at the chain's current height.
C8_RetainedValid ==
    last.op \in {"insert", "apply_block", "revert_block", "housekeeping"} =>
        \A h \in DOMAIN fork_proofs :
            is_valid_at(fork_proofs[h][1], blockchain.block_number)

\* C9: every read of the chain one insert call makes observes the same chain
\* state: while the call holds what it read, no write to the chain state has
\* happened since its first read, and the values it acts on are the chain's.
C9_SingleSnapshot ==
    /\ \A i, j \in DOMAIN ins.seen : ins.seen[i] = ins.seen[j]
    /\ ins.pc \in {"valid", "slot", "slashed", "check"} =>
         /\ \A i \in DOMAIN ins.seen : ins.seen[i] = version
         /\ ins.height = blockchain.block_number
         /\ ins.pc \in {"slashed", "check"} =>
              ins.slot = get_slot_at(blockchain, ProofOf(ins.proof).block_number,
                                     ProofOf(ins.proof).view_number)
         /\ ins.pc = "check" => ins.slashed = chain_slashed

\* An insert read the chain three times, after the chain had been written to,
\* and retained its proof.
C9_Witness ==
    /\ ins.pc = "returned" /\ ins.result = "Ok(true)"
    /\ Len(ins.seen) = 3
    /\ ins.seen[1] > 0

\* C10: a signature produced by sign on a message of one kind never verifies,
\* under any public key, as a signature on a message of another kind, also
\* when both messages serialize to the same bytes; verify answers false for
\* a SignedMessage whose signature was made for another kind.
C10_DomainSeparation ==
    /\ signed_message.origin # NoMessage =>
         \A m \in Messages, k \in PublicKeys :
             m.kind # signed_message.origin.kind
                 => ~verify_message(m, signed_message.signature, k)
    /\ (verified.done /\ verified.result)
          => signed_message.message.kind = signed_message.origin.kind

\* The replay of the test: a prepare signature in a SignedPbftCommitMessage
\* over the same block hash, verified under the signer's key, answered false.
C10_Witness ==
    /\ signed_message.origin.kind = "PbftPrepare"
    /\ signed_message.message.kind = "PbftCommit"
    /\ serialize(signed_message.message) = serialize(signed_message.origin)
    /\ verified.done /\ ~verified.result
    /\ verified.key = signed_message.signature.signer

\* The secret key of a band's validator.
SecretKeyOf(validator_key) == CHOOSE k \in ValidatorKeys : PublicKeyOf(k) = validator_key

\* The proof was built from valid signatures on message m of the bands it marks.
BuiltFromValid(proof, m) ==
    /\ proof.signer_bitmap # {}
    /\ proof.signer_bitmap \subseteq 0 .. Len(validators) - 1
    /\ proof.aggregate_signature
         = { sign(m, SecretKeyOf(validators[i + 1].public_key)) : i \in proof.signer_bitmap }

\* C11: a proof built by a fresh builder from valid signatures on M of distinct
\* bands verifies for M when the summed slot_count of those bands is at least
\* the threshold and fails with InsufficientWeight when it is less; a single
\* band owning all SLOTS slots verifies against TWO_THIRD_SLOTS.
C11_ThresholdProof ==
    /\ \A m \in ViewChanges, t \in 0 .. SLOTS + 1 :
         LET proof == build(builder)
         IN  BuiltFromValid(proof, m) =>
                verify_proof(proof, m, validators, t)
                  = IF SlotCount([i \in 1 .. Len(validators) |->
                                    IF i - 1 \in proof.signer_bitmap
                                    THEN validators[i]
                                    ELSE [validators[i] EXCEPT !.slot_count = 0]]) >= t
                    THEN "ok" ELSE "InsufficientWeight"
    /\ \A m \in ViewChanges :
         (Len(validators) = 1 /\ BuiltFromValid(build(builder), m)) =>
            verify_proof(build(builder), m, validators, TWO_THIRD_SLOTS) = "ok"

\* The run of the test: one validator owning all slots, its view change signed,
\* built and verified against TWO_THIRD_SLOTS.
C11_Witness ==
    /\ Len(validators) = 1
    /\ threshold_proof.signer_bitmap = {0}
    /\ proof_result.result = "ok"
    /\ proof_result.threshold = TWO_THIRD_SLOTS
    /\ proof_result.message = MkViewChange(1234, 42)

\* The two records agree on ty, services and timestamp.
SameSignedFields(x, y) ==
    x.ty = y.ty /\ x.services = y.services /\ x.timestamp = y.timestamp

\* C12: two PeerAddress records that agree on ty, services and timestamp and
\* differ in net_address or distance have the same get_signature_data, and
\* with the same public_key and signature the same verify_signature result;
\* the signed bytes are protocol_tag, services, timestamp and, for Ws and Wss,
\* host and port.
C12_SignatureData ==
    relayed_address # NoPeerAddress =>
    /\ \A n \in NetAddresses, d \in Distances :
         LET y == [relayed_address EXCEPT !.net_address = n, !.distance = d]
         IN  /\ get_signature_data(y) = get_signature_data(relayed_address)
             /\ verify_signature(y) = verify_signature(relayed_address)
    /\ SameSignedFields(peer_address, relayed_address) =>
         /\ get_signature_data(peer_address) = get_signature_data(relayed_address)
         /\ verify_signature(peer_address) = verify_signature(relayed_address)
    /\ LET x == relayed_address
       IN  get_signature_data(x)
             = <<ProtocolTag(x.ty.kind)>> \o U32BE(x.services) \o U64BE(x.timestamp)
                 \o (IF x.ty.kind \in {"Ws", "Wss"}
                     THEN U16BE(Len(x.ty.host)) \o x.ty.host \o U16BE(x.ty.port)
                     ELSE <<>>)

\* A Ws or Wss record was passed on with another net_address and distance,
\* and its signature still verified.
C12_Witness ==
    /\ relayed_address.ty.kind \in {"Ws", "Wss"}
    /\ SameSignedFields(peer_address, relayed_address)
    /\ relayed_address.net_address # peer_address.net_address
    /\ relayed_address.distance # peer_address.distance
    /\ signature_ok = "true"

\* C13: for every PeerAddress x of the four variants, deserialize of
\* serialize(x) succeeds with a record equal to x in every field and consumes
\* exactly the bytes serialize wrote, which are protocol_tag, services,
\* timestamp, net_address, public_key, distance, signature and the variant
\* tail, in this order.
C13_RoundTrip ==
    relayed_address # NoPeerAddress =>
    LET x == relayed_address
        bytes == serialize_peer_address(x)
    IN  /\ \A trailing \in { <<>>, <<7>>, <<0, 1>> } :
             deserialize_peer_address(bytes \o trailing)
                 = [ok |-> TRUE, value |-> x, consumed |-> Len(bytes)]
        /\ bytes = <<ProtocolTag(x.ty.kind)>> \o U32BE(x.services) \o U64BE(x.timestamp)
                     \o serialize_net_address(x.net_address) \o x.public_key
                     \o <<x.distance>> \o x.signature \o VariantTail(x.ty)
        /\ (decoded.ok /\ wire = bytes) => decoded.value = x

\* A Wss record with an IPv4 net_address was serialized and deserialized:
\* every byte was consumed and the record came back.
C13_Witness ==
    /\ relayed_address.ty.kind = "Wss"
    /\ relayed_address.net_address.kind = "IPv4"
    /\ wire # <<>>
    /\ decoded.ok /\ decoded.value = relayed_address /\ decoded.consumed = Len(wire)

\* C14: insert makes its checks in the order already present, temporal
\* validity, slot lookup, slashed-set lookup, slot already slashed,
\* cryptographic verification, and reports the first one that fails: a
\* retained proof gives Ok(false) even when no longer valid, an invalid epoch
\* gives InvalidEpochTarget even when the slot does not resolve, and an
\* invalid signature on a slashed slot gives SlotAlreadySlashed.
C14_CheckOrder ==
    \A p \in ForkProofs, s \in SlashedAnswers :
        LET r == insert(Pool, blockchain, s, p).result
            known == hash(p) \in DOMAIN fork_proofs
            valid == is_valid_at(p, blockchain.block_number)
            slot == get_slot_at(blockchain, p.block_number, p.view_number)
            taken == slot \in s \/ slot \in fork_proof_slots
            signed == verify(p, public_key(slot))
        IN  IF known THEN r = "Ok(false)"
            ELSE IF ~valid THEN r = "InvalidEpochTarget"
            ELSE IF slot = NoSlot THEN r = "UnexpectedBlock"
            ELSE IF s = SlashedErr THEN r = "InvalidEpochTarget"
            ELSE IF taken THEN r = "SlotAlreadySlashed"
            ELSE IF ~signed THEN r = "InvalidProof"
            ELSE r = "Ok(true)"

\* A proof with an invalid signature was refused with SlotAlreadySlashed: its
\* slot is held by a retained proof.
C14_Witness ==
    /\ last.op = "insert" /\ last.result = "SlotAlreadySlashed"
    /\ LET p == ProofOf(last.arg)
           slot == get_slot_at(blockchain, p.block_number, p.view_number)
       IN  slot # NoSlot /\ ~verify(p, public_key(slot)) /\ slot \in StoredSlots(Pool)

\* C15: when insert returns an error, or Ok(false), fork_proofs and
\* fork_proof_slots are what they were before the call; when it returns
\* Ok(true), each has exactly one new entry, the proof and its slot number.
C15_ErrorsChangeNothing ==
    \A p \in ForkProofs, s \in SlashedAnswers :
        LET r == insert(Pool, blockchain, s, p)
            h == hash(p)
        IN  /\ r.result # "Ok(true)" => r.pool = Pool
            /\ r.result = "Ok(true)" =>
                 /\ h \notin DOMAIN fork_proofs
                 /\ DOMAIN r.pool.fork_proofs = DOMAIN fork_proofs \cup {h}
                 /\ \A k \in DOMAIN fork_proofs : r.pool.fork_proofs[k] = fork_proofs[k]
                 /\ r.pool.fork_proofs[h][1] = p
                 /\ fork_proof_slots \subseteq r.pool.fork_proof_slots
                 /\ r.pool.fork_proof_slots \ fork_proof_slots = {r.pool.fork_proofs[h][2]}
                 /\ Cardinality(r.pool.fork_proof_slots) = Cardinality(fork_proof_slots) + 1

\* An insert failed with InvalidProof on a pool that holds a proof.
C15_Witness ==
    /\ last.op = "insert" /\ last.result = "InvalidProof"
    /\ DOMAIN fork_proofs # {}
    /\ last.arg \notin DOMAIN fork_proofs

\* C16: after housekeeping(H, current_slashed_set, previous_slashed_set),
\* fork_proofs holds exactly the entries retained before whose proof is valid
\* at H and whose slot is not in current_slashed_set when the proof's epoch is
\* H's epoch, not in previous_slashed_set otherwise; no entry is added and no
\* retained entry's slot number changes.
C16_HousekeepingRetains ==
    \A H \in 0 .. MaxHeight, c \in SUBSET Slots, q \in SUBSET Slots :
        LET after == housekeeping(Pool, H, c, q)
            kept == { h \in DOMAIN fork_proofs :
                        LET p == fork_proofs[h][1]
                            slot == fork_proofs[h][2]
                        IN  /\ is_valid_at(p, H)
                            /\ epoch_at(p.block_number) = epoch_at(H) => slot \notin c
                            /\ epoch_at(p.block_number) # epoch_at(H) => slot \notin q }
        IN  /\ DOMAIN after.fork_proofs = kept
            /\ \A h \in kept : after.fork_proofs[h] = fork_proofs[h]

\* A housekeeping call pruned one proof, whose slot number is left behind,
\* and retained another.
C16_Witness ==
    /\ last.op = "housekeeping"
    /\ DOMAIN fork_proofs # {}
    /\ fork_proof_slots \ StoredSlots(Pool) # {}

\* The hashes of the fork proofs embedded in block.
EmbeddedHashes(block) == { hash(block.fork_proofs[i]) : i \in DOMAIN block.fork_proofs }

\* C17: after apply_block(B) for a micro block with extrinsics, no proof
\* embedded in B is in fork_proofs and the slot number it was stored with is
\* not in fork_proof_slots, and every entry of a proof not embedded in B is
\* unchanged; a macro block, or a micro block without extrinsics, leaves the
\* pool unchanged.
C17_ApplyBlockFrame ==
    \A b \in Blocks :
        LET after == apply_block(Pool, b)
        IN  /\ HasExtrinsics(b) =>
                 /\ \A h \in EmbeddedHashes(b) :
                        /\ h \notin DOMAIN after.fork_proofs
                        /\ h \in DOMAIN fork_proofs
                             => SlotOf(Pool, h) \notin after.fork_proof_slots
                 /\ DOMAIN after.fork_proofs = DOMAIN fork_proofs \ EmbeddedHashes(b)
                 /\ \A h \in DOMAIN after.fork_proofs : after.fork_proofs[h] = fork_proofs[h]
                 /\ after.fork_proof_slots \subseteq fork_proof_slots
            /\ ~HasExtrinsics(b) => after = Pool

\* An applied block removed a retained proof and left another entry alone.
C17_Witness ==
    /\ last.op = "apply_block" /\ applied.status = "applied"
    /\ EmbeddedHashes(applied.block) \cap DOMAIN applied.before.fork_proofs # {}
    /\ DOMAIN fork_proofs # {}
    /\ \A h \in DOMAIN fork_proofs : fork_proofs[h] = applied.before.fork_proofs[h]

\* C18: revert_block never fails; every embedded proof whose slot get_slot_at
\* resolves is in fork_proofs afterwards with that slot number, and the slot
\* is in fork_proof_slots; a proof whose slot is None is skipped, its entry
\* being as before, and the proofs after it are still processed.
C18_RevertBlockTotal ==
    \A b \in Blocks :
        LET after == revert_block(Pool, blockchain, b)
        IN  /\ HasExtrinsics(b) =>
                 /\ \A i \in DOMAIN b.fork_proofs :
                        LET p == b.fork_proofs[i]
                            h == hash(p)
                            slot == get_slot_at(blockchain, p.block_number, p.view_number)
                        IN  IF slot # NoSlot
                            THEN /\ h \in DOMAIN after.fork_proofs
                                 /\ after.fork_proofs[h] = <<p, slot>>
                                 /\ slot \in after.fork_proof_slots
                            ELSE /\ h \in DOMAIN after.fork_proofs <=> h \in DOMAIN fork_proofs
                                 /\ h \in DOMAIN fork_proofs
                                      => after.fork_proofs[h] = fork_proofs[h]
                 /\ \A h \in DOMAIN fork_proofs \ EmbeddedHashes(b) :
                        h \in DOMAIN after.fork_proofs /\ after.fork_proofs[h] = fork_proofs[h]
                 /\ DOMAIN after.fork_proofs \subseteq DOMAIN fork_proofs \cup EmbeddedHashes(b)
                 /\ fork_proof_slots \subseteq after.fork_proof_slots
            /\ ~HasExtrinsics(b) => after = Pool

\* A reverted block embedded two proofs: the slot of the first did not
\* resolve and it was skipped, the second was re-added.
C18_Witness ==
    /\ last.op = "revert_block" /\ applied.status \in {"restored", "changed"}
    /\ Len(applied.block.fork_proofs) = 2
    /\ LET p1 == applied.block.fork_proofs[1]
           p2 == applied.block.fork_proofs[2]
       IN  /\ get_slot_at(blockchain, p1.block_number, p1.view_number) = NoSlot
           /\ hash(p1) \notin DOMAIN fork_proofs
           /\ hash(p2) \in DOMAIN fork_proofs
           /\ fork_proofs[hash(p2)][2]
                = get_slot_at(blockchain, p2.block_number, p2.view_number)

\* C19: insert returns SlotAlreadySlashed only if the chain's slashed set
\* holds the resolved slot number or a retained proof is stored with it: a
\* slot whose proof was removed from the pool and which is not slashed on the
\* chain does not block a new valid proof for that slot.
C19_SlashedOnlyIf ==
    \A p \in ForkProofs, s \in SlashedAnswers :
        insert(Pool, blockchain, s, p).result = "SlotAlreadySlashed" =>
            LET slot == get_slot_at(blockchain, p.block_number, p.view_number)
            IN  slot \in s \/ slot \in StoredSlots(Pool)

\* Membership in a list of proofs.
InList(proofs, p) == \E i \in DOMAIN proofs : proofs[i] = p

\* C20: get_fork_proofs_for_block does not stop at the first proof that does
\* not fit: for every retained proof p that is not in the returned list, the
\* summed serialized_size of the list plus that of p is at least max_bytes.
C20_GreedyFill ==
    \A m \in 0 .. MaxBytes, o \in Orders(fork_proofs) :
        LET proofs == get_fork_proofs_for_block(Pool, m, o)
        IN  \A h \in DOMAIN fork_proofs :
                ~InList(proofs, fork_proofs[h][1])
                    => SumSize(proofs) + fork_proofs[h][1].size >= m

\* A call returned some of the retained proofs and left others out.
C20_Witness ==
    /\ last.op = "get_fork_proofs_for_block"
    /\ last.n >= 1
    /\ last.n < Cardinality(DOMAIN fork_proofs)

====
